---- MODULE Spec2Model ----
(***************************************************************************)
(* Gomoku decision engines: the depth-bounded alpha-beta search of         *)
(* minimax.py (GomokuAI) and the time-boxed Monte-Carlo tree search of     *)
(* mcts.py (Node, MCTS), both called through get_move(board).              *)
(*                                                                         *)
(* Numbers.  The source computes move scores in floating point with the    *)
(* factors 1.1 and 0.1.  Here every move score is kept as an exact integer *)
(* in hundredths (score * 100), so that both factors stay integral.  The   *)
(* win statistic of a tree node is kept in halves (wins * 2).              *)
(***************************************************************************)
EXTENDS Integers, Sequences, FiniteSets, TLC

\* Side of the board: board.size, Board() as built by the caller.
N == 15

\* Length of a winning run: `count >= 5`.
WinLen == 5

Black == 1
White == 0 - 1

Cells == 0 .. (N - 1)

InRange(i, j) == (0 <= i) /\ (i < N) /\ (0 <= j) /\ (j < N)

\* Position of cell (i, j) in the row-major cell sequence of a board.
Idx(i, j) == i * N + j + 1

\* directions = [(1,0), (0,1), (1,1), (1,-1)]
directions == << <<1, 0>>, <<0, 1>>, <<1, 1>>, <<1, 0 - 1>> >>

Abs(x) == IF x < 0 THEN 0 - x ELSE x
Max(a, b) == IF a >= b THEN a ELSE b
Min(a, b) == IF a <= b THEN a ELSE b

\* Python's lexicographic order on (i, j) tuples.
MoveLess(m1, m2) == (m1[1] < m2[1]) \/ (m1[1] = m2[1] /\ m1[2] < m2[2])

\* A sequence given by a rule [k \in 1 .. n |-> e], with every element computed
\* once.
Stored(s) == SelectSeq(s, LAMBDA e : TRUE)

(***************************************************************************)
(* Board (board.py): a value [board, current_player]; board is the         *)
(* row-major sequence of the N*N cells, 0 empty, 1 Black, -1 White.        *)
(***************************************************************************)
AllMoves == [k \in 1 .. (N * N) |-> <<(k - 1) \div N, (k - 1) % N>>]

Cell(b, i, j) == b.board[Idx(i, j)]

\* Board(): empty grid, Black to move.
EmptyBoard == [board |-> Stored([k \in 1 .. (N * N) |-> 0]), current_player |-> Black]

\* Board.copy(): an independent deep copy (a value equal to the original).
copy(b) == b

\* Board.get_valid_moves(): the empty cells, in row-major order.
get_valid_moves(b) == SelectSeq(AllMoves, LAMBDA m : Cell(b, m[1], m[2]) = 0)

\* Board.is_valid_move(move)
is_valid_move(b, move) ==
    /\ InRange(move[1], move[2])
    /\ Cell(b, move[1], move[2]) = 0

\* Board.make_move(move): place the current player's stone, flip the player.
make_move(b, move) ==
    IF is_valid_move(b, move)
    THEN [board |-> [b.board EXCEPT ![Idx(move[1], move[2])] = b.current_player],
          current_player |-> 0 - b.current_player]
    ELSE b

\* `test_board.board[i][j] = player`: a raw cell write, no validation.
SetCell(b, i, j, player) == [b EXCEPT !.board[Idx(i, j)] = player]

\* Number of consecutive cells equal to player from (i, j) along (di, dj).
RECURSIVE CountRun(_, _, _, _, _, _)
CountRun(b, i, j, di, dj, player) ==
    IF InRange(i, j) /\ Cell(b, i, j) = player
    THEN 1 + CountRun(b, i + di, j + dj, di, dj, player)
    ELSE 0

\* A run of WinLen or more starts at cell (i, j) in some direction.
RunStartsAt(b, i, j) ==
    /\ Cell(b, i, j) # 0
    /\ \E d \in 1 .. 4 :
          CountRun(b, i, j, directions[d][1], directions[d][2], Cell(b, i, j)) >= WinLen

\* Board.check_win(): the player of the first five-or-more run found scanning
\* the cells in row-major order, 0 when there is none.
check_win(b) ==
    LET hits == {k \in 1 .. (N * N) : RunStartsAt(b, AllMoves[k][1], AllMoves[k][2])}
    IN  IF hits = {} THEN 0
        ELSE b.board[CHOOSE k \in hits : \A k2 \in hits : k <= k2]

\* Board.is_game_over(): somebody has won, or no empty cell is left.
is_game_over(b) == (check_win(b) # 0) \/ (\A k \in 1 .. (N * N) : b.board[k] # 0)

(***************************************************************************)
(* The single-origin win test, written three times in the source           *)
(* (GomokuAI._is_winning_move, Node._is_winning_move,                      *)
(* MCTS._is_winning_move) with the same body.                              *)
(***************************************************************************)
\* test_board = board.copy(); test_board.board[move[0]][move[1]] = player.
\* The pair holds the caller's board after the two statements and test_board.
\* (TestBoardBad: the same without the copy, test_board = board.)
TestBoardBad(b, move, player) ==
    [orig |-> SetCell(b, move[1], move[2], player),
     test |-> SetCell(b, move[1], move[2], player)]

TestBoard(b, move, player) ==
    [orig |-> b, test |-> SetCell(copy(b), move[1], move[2], player)]

\* count = 1 + stones forward + stones backward, per direction; count >= 5.
LineWins(tb, move, player) ==
    \E d \in 1 .. 4 :
        LET di == directions[d][1]
            dj == directions[d][2]
        IN  1 + CountRun(tb, move[1] + di, move[2] + dj, di, dj, player)
              + CountRun(tb, move[1] - di, move[2] - dj, 0 - di, 0 - dj, player)
            >= WinLen

\* (_is_winning_moveBad: the same with `count > 5`.)
_is_winning_moveBad(b, move, player) ==
    \E d \in 1 .. 4 :
        1 + CountRun(b, move[1] + directions[d][1], move[2] + directions[d][2],
                     directions[d][1], directions[d][2], player)
          + CountRun(b, move[1] - directions[d][1], move[2] - directions[d][2],
                     0 - directions[d][1], 0 - directions[d][2], player)
        > WinLen

_is_winning_move(b, move, player) == LineWins(TestBoard(b, move, player).test, move, player)

\* The caller's board after _is_winning_move(board, move, player) returns.
AfterIsWinningMove(b, move, player) == TestBoard(b, move, player).orig

(***************************************************************************)
(* Directional pattern scan (GomokuAI._get_pattern, Node._evaluate_line,   *)
(* the inner loop of MCTS._quick_evaluate_move).  One walk from (ni, nj)   *)
(* in steps of (si, sj); the result is the walk's final                    *)
(* (consecutive, blocked, space).                                          *)
(***************************************************************************)
RECURSIVE Walk(_, _, _, _, _, _, _, _, _)
Walk(b, ni, nj, si, sj, player, consecutive, blocked, space) ==
    IF ~InRange(ni, nj)
    THEN [consecutive |-> consecutive, blocked |-> blocked, space |-> space]
    ELSE IF Cell(b, ni, nj) = 0
    THEN IF space + 1 >= 2
         THEN [consecutive |-> consecutive, blocked |-> blocked, space |-> space + 1]
         ELSE Walk(b, ni + si, nj + sj, si, sj, player, consecutive, blocked, space + 1)
    ELSE IF Cell(b, ni, nj) = player
    THEN IF space = 0
         THEN Walk(b, ni + si, nj + sj, si, sj, player, consecutive + 1, blocked, space)
         ELSE [consecutive |-> consecutive, blocked |-> blocked, space |-> space]
    ELSE [consecutive |-> consecutive, blocked |-> blocked + 1, space |-> space]

\* GomokuAI._get_pattern: backward walk with space_before, then forward walk
\* with space_after; (consecutive, blocked, space_before + space_after).
_get_pattern(b, i, j, di, dj, player) ==
    LET before == Walk(b, i - di, j - dj, 0 - di, 0 - dj, player, 1, 0, 0)
        after  == Walk(b, i + di, j + dj, di, dj, player,
                       before.consecutive, before.blocked, 0)
    IN  [consecutive |-> after.consecutive,
         blocked     |-> after.blocked,
         space       |-> before.space + after.space]

(***************************************************************************)
(* Sorting.  list.sort(reverse=True) on (score, move) tuples: descending   *)
(* by score, then by move; moves are distinct, so no two entries tie.      *)
(***************************************************************************)
EntryGreater(e1, e2) ==
    (e1.score > e2.score) \/ (e1.score = e2.score /\ MoveLess(e2.move, e1.move))

\* The sorted list: entry k goes to position 1 + the number of entries greater
\* than it.
SortDesc(s) ==
    LET rank == Stored([k \in 1 .. Len(s) |->
                    1 + Cardinality({j \in 1 .. Len(s) : EntryGreater(s[j], s[k])})])
    IN  Stored([r \in 1 .. Len(s) |-> s[CHOOSE k \in 1 .. Len(s) : rank[k] = r]])

\* s[:n]
Take(s, n) == SubSeq(s, 1, Min(n, Len(s)))

MovesOf(entries) == Stored([k \in 1 .. Len(entries) |-> entries[k].move])

\* (centerBad: the center rounded up.)
centerBad == (N + 1) \div 2

center == N \div 2

(***************************************************************************)
(* minimax.py: GomokuAI                                                    *)
(***************************************************************************)
\* float('inf'), as an integer no score reaches.
Inf == 2000000000

\* GomokuAI._get_pattern_score with self.pattern_scores.
_get_pattern_score(pattern) ==
    IF pattern.consecutive >= 5 THEN 100000
    ELSE IF pattern.consecutive = 4 /\ pattern.blocked = 0 THEN 10000
    ELSE IF pattern.consecutive = 4 /\ pattern.blocked = 1 THEN 5000
    ELSE IF pattern.consecutive = 3 /\ pattern.blocked = 0 THEN 1000
    ELSE IF pattern.consecutive = 3 /\ pattern.blocked = 1 THEN 500
    ELSE IF pattern.consecutive = 2 /\ pattern.blocked = 0 THEN 100
    ELSE IF pattern.consecutive = 2 /\ pattern.blocked = 1 THEN 50
    ELSE IF pattern.consecutive = 1 /\ pattern.blocked = 0 THEN 10
    ELSE 0

RECURSIVE SumDirs(_, _, _, _, _)
SumDirs(b, i, j, player, d) ==
    IF d > 4 THEN 0
    ELSE _get_pattern_score(_get_pattern(b, i, j, directions[d][1], directions[d][2], player))
         + SumDirs(b, i, j, player, d + 1)

\* GomokuAI._evaluate_direction_all
_evaluate_direction_all(b, i, j, player) == SumDirs(b, i, j, player, 1)

\* GomokuAI._evaluate_move, in hundredths:
\* attack + defense * 1.1 - distance_to_center * 10.
_evaluate_move(b, move) ==
    LET i == move[1]
        j == move[2]
        player == b.current_player
        opponent == 0 - player
        attack_score == _evaluate_direction_all(TestBoard(b, move, player).test, i, j, player)
        defense_score == _evaluate_direction_all(TestBoard(b, move, opponent).test, i, j, opponent)
        distance_to_center == Abs(i - center) + Abs(j - center)
    IN  100 * attack_score + 110 * defense_score - 1000 * distance_to_center

\* GomokuAI._has_neighbor
_has_neighbor(b, i, j) ==
    \E di \in {0 - 1, 0, 1}, dj \in {0 - 1, 0, 1} :
        /\ ~(di = 0 /\ dj = 0)
        /\ InRange(i + di, j + dj)
        /\ Cell(b, i + di, j + dj) # 0

\* Breadth cap of GomokuAI._get_valid_moves: moves[:15].
MinimaxBreadth == 15

\* (_get_valid_movesBad: the same without the `board.board[i][j] == 0` test.)
_get_valid_movesBad(b) ==
    IF \A k \in 1 .. (N * N) : b.board[k] = 0
    THEN << <<center, center>> >>
    ELSE LET cand  == SelectSeq(AllMoves, LAMBDA m : _has_neighbor(b, m[1], m[2]))
             moves == Stored([k \in 1 .. Len(cand) |->
                          [score |-> _evaluate_move(b, cand[k]), move |-> cand[k]]])
         IN  MovesOf(Take(SortDesc(moves), MinimaxBreadth))

\* GomokuAI._get_valid_moves
_get_valid_moves(b) ==
    IF \A k \in 1 .. (N * N) : b.board[k] = 0
    THEN << <<center, center>> >>
    ELSE LET cand  == SelectSeq(AllMoves,
                        LAMBDA m : Cell(b, m[1], m[2]) = 0 /\ _has_neighbor(b, m[1], m[2]))
             moves == Stored([k \in 1 .. Len(cand) |->
                          [score |-> _evaluate_move(b, cand[k]), move |-> cand[k]]])
         IN  MovesOf(Take(SortDesc(moves), MinimaxBreadth))

\* GomokuAI._evaluate_board, in tenths: own patterns minus 1.1 times the
\* opponent's, over every occupied cell and direction, seen from the player
\* to move on b.  EvalCells sums the cells lo .. hi.
CellValue(b, k) ==
    IF b.board[k] = 0 THEN 0
    ELSE IF b.board[k] = b.current_player
    THEN 10 * _evaluate_direction_all(b, AllMoves[k][1], AllMoves[k][2], b.current_player)
    ELSE 0 - 11 * _evaluate_direction_all(b, AllMoves[k][1], AllMoves[k][2],
                                          0 - b.current_player)

RECURSIVE EvalCells(_, _, _)
EvalCells(b, lo, hi) ==
    IF lo = hi THEN CellValue(b, lo)
    ELSE EvalCells(b, lo, (lo + hi) \div 2) + EvalCells(b, (lo + hi) \div 2 + 1, hi)

_evaluate_board(b) == EvalCells(b, 1, N * N)

\* new_board = board.copy(); new_board.make_move(move).
\* The pair holds the caller's board after the two statements and new_board.
\* (NewBoardBad: the same without the copy, new_board = board.)
NewBoardBad(b, move) == [orig |-> make_move(b, move), new |-> make_move(b, move)]

NewBoard(b, move) == [orig |-> b, new |-> make_move(copy(b), move)]

\* GomokuAI._minimax with its two sibling loops; k is the loop position,
\* best the running max_eval / min_eval.
RECURSIVE _minimax(_, _, _, _, _)
\* The loop of _minimax with the minimizing side cutting off on
\* beta >= alpha in place of beta <= alpha.
RECURSIVE MinimaxLoopBad(_, _, _, _, _, _, _, _)
MinimaxLoopBad(b, valid_moves, k, depth, is_maximizing, alpha, beta, best) ==
    IF k > Len(valid_moves) THEN best
    ELSE LET new_board == NewBoard(b, valid_moves[k]).new
             eval == _minimax(new_board, depth - 1, ~is_maximizing, alpha, beta)
         IN  IF is_maximizing
             THEN LET max_eval == Max(best, eval)
                      alpha2 == Max(alpha, eval)
                  IN  IF beta <= alpha2 THEN max_eval
                      ELSE MinimaxLoopBad(b, valid_moves, k + 1, depth, is_maximizing,
                                          alpha2, beta, max_eval)
             ELSE LET min_eval == Min(best, eval)
                      beta2 == Min(beta, eval)
                  IN  IF beta2 >= alpha THEN min_eval
                      ELSE MinimaxLoopBad(b, valid_moves, k + 1, depth, is_maximizing,
                                          alpha, beta2, min_eval)

RECURSIVE MinimaxLoop(_, _, _, _, _, _, _, _)
MinimaxLoop(b, valid_moves, k, depth, is_maximizing, alpha, beta, best) ==
    IF k > Len(valid_moves) THEN best
    ELSE LET new_board == NewBoard(b, valid_moves[k]).new
             eval == _minimax(new_board, depth - 1, ~is_maximizing, alpha, beta)
         IN  IF is_maximizing
             THEN LET max_eval == Max(best, eval)
                      alpha2 == Max(alpha, eval)
                  IN  IF beta <= alpha2 THEN max_eval
                      ELSE MinimaxLoop(b, valid_moves, k + 1, depth, is_maximizing,
                                       alpha2, beta, max_eval)
             ELSE LET min_eval == Min(best, eval)
                      beta2 == Min(beta, eval)
                  IN  IF beta2 <= alpha THEN min_eval
                      ELSE MinimaxLoop(b, valid_moves, k + 1, depth, is_maximizing,
                                       alpha, beta2, min_eval)

_minimax(b, depth, is_maximizing, alpha, beta) ==
    IF depth = 0 \/ is_game_over(b)
    THEN _evaluate_board(b)
    ELSE MinimaxLoop(b, _get_valid_moves(b), 1, depth, is_maximizing, alpha, beta,
                     IF is_maximizing THEN 0 - Inf ELSE Inf)

\* The moves GomokuAI.get_move may return on b: None without candidates, the
\* center on the first move, the first winning candidate, else the first
\* blocking candidate, else best_move of the root loop, which is some element
\* of valid_moves; which one the search picks is left open here.
GomokuAI_get_move(b) ==
    LET valid_moves == _get_valid_moves(b)
        wins   == SelectSeq(valid_moves,
                            LAMBDA m : _is_winning_move(b, m, b.current_player))
        blocks == SelectSeq(valid_moves,
                            LAMBDA m : _is_winning_move(b, m, 0 - b.current_player))
    IN  IF valid_moves = << >> THEN {<< >>}
        ELSE IF Len(valid_moves) = N * N THEN {<<center, center>>}
        ELSE IF wins # << >> THEN {wins[1]}
        ELSE IF blocks # << >> THEN {blocks[1]}
        ELSE {valid_moves[j] : j \in 1 .. Len(valid_moves)}

(***************************************************************************)
(* mcts.py: Node                                                           *)
(***************************************************************************)
\* Node._evaluate_line: the pattern walk of _get_pattern with its own table;
\* every shape the table does not name scores the base 100.
_evaluate_line(b, i, j, di, dj, player) ==
    LET p == _get_pattern(b, i, j, di, dj, player)
    IN  IF p.consecutive >= 5 THEN 100000
        ELSE IF p.consecutive = 4 /\ p.blocked = 0 THEN 50000
        ELSE IF p.consecutive = 4 /\ p.blocked = 1 THEN 10000
        ELSE IF p.consecutive = 3 /\ p.blocked = 0 THEN 8000
        ELSE IF p.consecutive = 3 /\ p.blocked = 1 THEN 3000
        ELSE IF p.consecutive = 2 /\ p.blocked = 0 THEN 1000
        ELSE IF p.consecutive = 2 /\ p.blocked = 1 THEN 300
        ELSE 100

\* Node._get_min_distance_to_pieces: Manhattan distance to the nearest stone
\* of the 5x5 window around the move, float('inf') when the window is empty.
_get_min_distance_to_pieces(b, move) ==
    LET i == move[1]
        j == move[2]
        ds == {Abs(x - i) + Abs(y - j) :
                  <<x, y>> \in {c \in (Max(0, i - 2) .. Min(N - 1, i + 2))
                                       \X (Max(0, j - 2) .. Min(N - 1, j + 2)) :
                                  Cell(b, c[1], c[2]) # 0}}
    IN  IF ds = {} THEN Inf ELSE CHOOSE d \in ds : \A e \in ds : d <= e

RECURSIVE NodeSumDirs(_, _, _, _, _)
NodeSumDirs(b, tb, i, j, d) ==
    IF d > 4 THEN 0
    ELSE 100 * _evaluate_line(tb, i, j, directions[d][1], directions[d][2], b.current_player)
         + 110 * _evaluate_line(b, i, j, directions[d][1], directions[d][2], 0 - b.current_player)
         + NodeSumDirs(b, tb, i, j, d + 1)

\* Node._evaluate_move, in hundredths: per direction attack on the test board
\* plus 1.1 * defense on the board itself, minus 10 * distance to the center,
\* the whole times 0.1 when the nearest stone is farther than 2.
Node_evaluate_move(b, move) ==
    LET i == move[1]
        j == move[2]
        test_board == TestBoard(b, move, b.current_player).test
        distance_to_center == Abs(i - center) + Abs(j - center)
        score == NodeSumDirs(b, test_board, i, j, 1) - 1000 * distance_to_center
    IN  IF _get_min_distance_to_pieces(b, move) > 2 THEN score \div 10 ELSE score

\* Breadth cap of Node._get_sorted_moves: sorted_moves[:10].
NodeBreadth == 10

\* Node._get_sorted_moves
_get_sorted_moves(b) ==
    LET valid_moves == get_valid_moves(b)
        winning == SelectSeq(valid_moves, LAMBDA m : _is_winning_move(b, m, b.current_player))
        critical_moves ==
            SelectSeq(valid_moves, LAMBDA m : _is_winning_move(b, m, 0 - b.current_player))
        scored == Stored([k \in 1 .. Len(valid_moves) |->
                      [score |-> Node_evaluate_move(b, valid_moves[k]),
                       move  |-> valid_moves[k]]])
        high_priority_moves == SortDesc(SelectSeq(scored, LAMBDA e : e.score >= 500000))
        normal_moves == SortDesc(SelectSeq(scored, LAMBDA e : e.score < 500000))
    IN  IF valid_moves = << >> THEN << >>
        ELSE IF Len(valid_moves) = N * N THEN << <<center, center>> >>
        ELSE IF winning # << >> THEN << winning[1] >>
        ELSE IF critical_moves # << >> THEN critical_moves
        ELSE Take(MovesOf(high_priority_moves) \o MovesOf(normal_moves), NodeBreadth)

\* Node.__init__
Node(b, parent, move) ==
    [board |-> b, parent |-> parent, move |-> move, children |-> << >>,
     wins2 |-> 0, visits |-> 0, untried_moves |-> _get_sorted_moves(b)]

\* ln(n) in millionths, n = 1 .. 12.  With these and the integer square root
\* below, two children compare by UCB1 as they do in floating point for
\* every parent visit count up to 12.
LnMicro ==
    << 0, 693147, 1098612, 1386294, 1609438, 1791759, 1945910, 2079442,
       2197225, 2302585, 2397895, 2484907 >>

\* floor(sqrt(x)) by bisection on lo .. hi.
RECURSIVE ISqrtIn(_, _, _)
ISqrtIn(x, lo, hi) ==
    IF lo >= hi THEN lo
    ELSE LET mid == (lo + hi + 1) \div 2
         IN  IF mid * mid <= x THEN ISqrtIn(x, mid, hi) ELSE ISqrtIn(x, lo, mid - 1)

ISqrt(x) == ISqrtIn(x, 0, 40000)

\* The sort key of Node.select_child, in units of 1e-7:
\* wins/visits + 1.414 * sqrt(2 * log(parent visits) / visits).
UCB1(wins2, visits, parent_visits) ==
    (wins2 * 5000000) \div visits
    + 1414 * ISqrt((2 * LnMicro[parent_visits] * 100) \div visits)

\* sorted(seq, key): stable, ascending.  keys[k] is the key of seq[k].
RECURSIVE InsertAsc(_, _)
InsertAsc(e, s) ==
    IF s = << >> THEN <<e>>
    ELSE IF e.key < Head(s).key THEN <<e>> \o s
    ELSE <<Head(s)>> \o InsertAsc(e, Tail(s))

RECURSIVE SortedAsc(_, _)
SortedAsc(s, n) == IF n = 0 THEN << >> ELSE InsertAsc(s[n], SortedAsc(s, n - 1))

Last(s) == s[Len(s)]

\* Node.select_child on node n of tree t: sorted(children, key = UCB1)[-1].
select_child(t, n) ==
    LET kids == t[n].children
        keyed == Stored([k \in 1 .. Len(kids) |->
                     [key  |-> UCB1(t[kids[k]].wins2, t[kids[k]].visits, t[n].visits),
                      item |-> kids[k]]])
    IN  Last(SortedAsc(keyed, Len(keyed))).item

\* Selection loop of MCTS.get_move: descend while the node has no untried
\* move and has children.
RECURSIVE Select(_, _)
Select(t, n) ==
    IF t[n].untried_moves = << >> /\ t[n].children # << >>
    THEN Select(t, select_child(t, n))
    ELSE n

\* new_board = self.board.copy(); new_board.make_move(move) of Node.add_child:
\* the node's own board after the two statements, and new_board.
ChildBoard(b, move) == [orig |-> b, new |-> make_move(copy(b), move)]

\* Node.add_child(move) on node n: the child is appended to the tree, the
\* move leaves untried_moves, the child joins children.
add_child(t, n, move) ==
    LET cb == ChildBoard(t[n].board, move)
        child == Node(cb.new, n, move)
        id == Len(t) + 1
    IN  Append([t EXCEPT ![n].board = cb.orig,
                         ![n].untried_moves = SelectSeq(@, LAMBDA m : m # move),
                         ![n].children = Append(@, id)],
               child)

\* Expansion step of MCTS.get_move on the selected node n:
\* if node.untried_moves: node = node.add_child(node.untried_moves[0]).
Expand(t, n) ==
    IF t[n].untried_moves # << >> THEN add_child(t, n, t[n].untried_moves[1]) ELSE t

\* Node.update with visits += result in place of visits += 1.
updateBad(node, result2) ==
    [node EXCEPT !.visits = @ + result2 \div 2, !.wins2 = @ + result2]

\* Node.update(result), result in halves.
update(node, result2) ==
    [node EXCEPT !.visits = @ + 1, !.wins2 = @ + result2]

(***************************************************************************)
(* mcts.py: MCTS                                                           *)
(***************************************************************************)
\* MCTS._quick_evaluate_move: per direction one walk forward and one backward
\* that share consecutive, blocked and space.
RECURSIVE QuickDirs(_, _, _, _)
QuickDirs(b, i, j, d) ==
    IF d > 4 THEN 0
    ELSE LET di == directions[d][1]
             dj == directions[d][2]
             player == b.current_player
             fwd == Walk(b, i + di, j + dj, di, dj, player, 1, 0, 0)
             p == Walk(b, i - di, j - dj, 0 - di, 0 - dj, player,
                       fwd.consecutive, fwd.blocked, fwd.space)
             here ==
                IF p.consecutive >= 5 THEN 100000
                ELSE IF p.consecutive = 4 /\ p.blocked = 0 THEN 50000
                ELSE IF p.consecutive = 4 /\ p.blocked = 1 THEN 10000
                ELSE IF p.consecutive = 3 /\ p.blocked = 0 THEN 5000
                ELSE IF p.consecutive = 3 /\ p.blocked = 1 THEN 1000
                ELSE IF p.consecutive = 2 /\ p.blocked = 0 THEN 500
                ELSE IF p.consecutive = 2 /\ p.blocked = 1 THEN 100
                ELSE 0
         IN  here + QuickDirs(b, i, j, d + 1)

_quick_evaluate_move(b, move) == QuickDirs(b, move[1], move[2], 1)

\* Number of leading valid moves a rollout step looks at: moves[:min(6, len)].
RolloutBreadth == 6

\* One rollout step's chosen_move on board_state bs (not game over).
ChosenMove(bs) ==
    LET top == Take(get_valid_moves(bs), RolloutBreadth)
        wins == {k \in 1 .. Len(top) : _is_winning_move(bs, top[k], bs.current_player)}
        first == IF wins = {} THEN Len(top) + 1
                 ELSE CHOOSE k \in wins : \A k2 \in wins : k <= k2
        blocks == {k \in 1 .. (first - 1) :
                      _is_winning_move(bs, top[k], 0 - bs.current_player)}
        move_scores == SortDesc(Stored([k \in 1 .. Len(top) |->
                                   [score |-> _quick_evaluate_move(bs, top[k]),
                                    move  |-> top[k]]]))
    IN  IF wins # {} THEN top[first]
        ELSE IF blocks # {} THEN top[CHOOSE k \in blocks : \A k2 \in blocks : k >= k2]
        ELSE move_scores[1].move

\* The value added to wins by one backpropagation, in halves:
\* 0.5 on a draw, else 1 if result == current_player else 0.
Reward2(result, current_player) ==
    IF result = 0 THEN 1
    ELSE IF result = current_player THEN 2 ELSE 0

\* (BackpropagateBad: the walk stops at the root without updating it,
\* `while node.parent is not None`.)
RECURSIVE BackpropagateBad(_, _, _)
BackpropagateBad(t, n, result2) ==
    IF t[n].parent = 0 THEN t
    ELSE BackpropagateBad([t EXCEPT ![n] = update(t[n], result2)], t[n].parent, result2)

\* Backpropagation loop: update every node from n up to the root.
RECURSIVE Backpropagate(_, _, _)
Backpropagate(t, n, result2) ==
    IF n = 0 THEN t
    ELSE Backpropagate([t EXCEPT ![n] = update(t[n], result2)], t[n].parent, result2)

\* (BestChildBad: the child of highest win rate, key = wins / visits.)
BestChildBad(t) ==
    LET kids == t[1].children
        keyed == Stored([k \in 1 .. Len(kids) |->
                     [key |-> (t[kids[k]].wins2 * 1000) \div Max(1, t[kids[k]].visits),
                      item |-> kids[k]]])
    IN  Last(SortedAsc(keyed, Len(keyed))).item

\* The final choice: sorted(root.children, key = visits)[-1].move.
BestChild(t) ==
    LET kids == t[1].children
        keyed == Stored([k \in 1 .. Len(kids) |->
                     [key |-> t[kids[k]].visits, item |-> kids[k]]])
    IN  Last(SortedAsc(keyed, Len(keyed))).item

(***************************************************************************)
(* Input boards                                                            *)
(***************************************************************************)
BoardOf(blacks, whites, player) ==
    [board |-> Stored([k \in 1 .. (N * N) |->
                   IF AllMoves[k] \in blacks THEN Black
                   ELSE IF AllMoves[k] \in whites THEN White ELSE 0]),
     current_player |-> player]

\* len stones in a line from (i, j) along direction d.
RunCells(i, j, d, len) ==
    {<<i + s * directions[d][1], j + s * directions[d][2]>> : s \in 0 .. (len - 1)}

\* Line boards: four stones of one owner on a five-cell line from the center
\* along direction d, the cell at position gap left empty (the owner's winning
\* cell); optionally a four of the other colour in row 5; either player to
\* move.  Black (7,7) .. (7,10) with White to move is among them.
LineBoard(d, gap, owner, other, player) ==
    LET line == RunCells(center, center, d, WinLen)
               \ RunCells(center + (gap - 1) * directions[d][1],
                          center + (gap - 1) * directions[d][2], d, 1)
        four == IF other THEN RunCells(center - 2, center - 2, 2, WinLen - 1) ELSE {}
    IN  IF owner = Black THEN BoardOf(line, four, player) ELSE BoardOf(four, line, player)

LineBoards ==
    {LineBoard(d, gap, owner, other, player) :
        <<d, gap, owner, other, player>> \in
            (1 .. 4) \X (1 .. WinLen) \X {Black, White} \X BOOLEAN \X {Black, White}}

\* Opening boards: the empty board, Black on the center, and a White reply.
Replies == {<<6, 6>>, <<6, 7>>, <<7, 8>>}

OpeningBoards ==
    {EmptyBoard, make_move(EmptyBoard, <<center, center>>)}
    \cup {make_move(make_move(EmptyBoard, <<center, center>>), r) : r \in Replies}

\* A full board without any run of five: rows of four Black, four White,
\* shifted by three from row to row.
FullCell(i, j) == IF ((j + 3 * i) % 8) < 4 THEN Black ELSE White

\* Cells that may be taken off the full board.
HoleCells == {<<6, 2>>, <<8, 3>>, <<8, 4>>, <<8, 8>>, <<6, 6>>}

\* Largest number of cells taken off the full board.
MaxHoles == 4

HoleBoards ==
    {[board |-> Stored([k \in 1 .. (N * N) |->
                    IF AllMoves[k] \in holes THEN 0
                    ELSE FullCell(AllMoves[k][1], AllMoves[k][2])]),
      current_player |-> p] :
        <<holes, p>> \in {h \in SUBSET HoleCells : Cardinality(h) <= MaxHoles}
                          \X {Black, White}}

\* A crowded board: eight open Black fours in the even rows, a White four in
\* row 7 and 27 scattered White stones; 32 Black and 31 White stones.
CrowdedBlacks == {<<r, c>> : <<r, c>> \in {0, 2, 4, 6, 8, 10, 12, 14} \X (1 .. 4)}

CrowdedWhites ==
    RunCells(7, 8, 2, 4)
    \cup ({1, 3, 5, 9, 11, 13} \X {8, 10, 12, 14})
    \cup {<<0, 9>>, <<0, 13>>, <<2, 9>>}

CrowdedBoards == {BoardOf(CrowdedBlacks, CrowdedWhites, p) : p \in {Black, White}}

\* The same Black fours with no White four: White, to move, has no winning
\* cell and Black has sixteen; 32 Black and 31 White stones.
ThreatWhites ==
    ({1, 3, 5, 9, 11, 13} \X {8, 10, 12, 14})
    \cup ({7} \X {6, 8, 10, 12, 14})
    \cup {<<0, 9>>, <<0, 13>>}

ThreatBoards == {BoardOf(CrowdedBlacks, ThreatWhites, White)}

Boards ==
    LineBoards \cup OpeningBoards \cup HoleBoards \cup CrowdedBoards \cup ThreatBoards

(***************************************************************************)
(* Engine configurations                                                   *)
(***************************************************************************)
\* Largest max_depth given to GomokuAI(max_depth).
MaxDepth == 2

\* MCTS(time_limit=5.0, ...): the default budget in seconds.
DefaultTimeLimit == 5

\* The max_moves given to MCTS(max_moves=...).
SmallMaxMoves == 2

\* Largest number of search-loop iterations followed in one MCTS.get_move.
MaxSims == 6

\* The "no move" value None, also the value of an unset move.
None == << >>

(***************************************************************************)
(* State                                                                   *)
(***************************************************************************)
VARIABLES
    engine,          \* "minimax" or "mcts": whose get_move runs
    board,           \* the caller's Board object passed to get_move
    board0,          \* its value when get_move was called
    max_depth,       \* GomokuAI.max_depth
    time_limit,      \* MCTS.time_limit
    max_moves,       \* MCTS.max_moves
    pc,              \* position in get_move: "call", the loops, "done", "raised"
    via,             \* the return statement taken
    result,          \* the returned move
    valid_moves,     \* GomokuAI.get_move: valid_moves
    k,               \* position of the running for loop
    alpha,           \* GomokuAI.get_move: alpha
    best_score,      \* GomokuAI.get_move: best_score
    best_move,       \* GomokuAI.get_move: best_move
    score,           \* GomokuAI.get_move: score of the last move searched
    tree,            \* MCTS: the nodes, root first; parent and children are
                     \* positions in this sequence
    node,            \* MCTS.get_move: node
    board_state,     \* MCTS.get_move: board_state of the running rollout
    current_player,  \* MCTS.get_move: current_player of the running rollout
    sims,            \* completed iterations of the search loop
    live,            \* GomokuGUI.board
    game_over,       \* GomokuGUI.game_over
    winner,          \* GomokuGUI.winner
    player_color,    \* GomokuGUI.player_color
    selecting_color, \* GomokuGUI.selecting_color
    gui_pc,          \* GomokuGUI.run: "events" between events, "ai" inside a
                     \* handler that is about to call ai_move, "exited"
    accepted,        \* moves accepted by the live board in the running game
    clicks           \* board clicks that placed a stone since construction

vars == <<engine, board, board0, max_depth, time_limit, max_moves, pc, via, result,
          valid_moves, k, alpha, best_score, best_move, score,
          tree, node, board_state, current_player, sims,
          live, game_over, winner, player_color, selecting_color, gui_pc,
          accepted, clicks>>

guiVars == <<live, game_over, winner, player_color, selecting_color, gui_pc,
             accepted, clicks>>

\* What a get_move call leaves alone: the engine's attributes, the board it
\* was given as it was at the call, and the window.
config == <<engine, board0, max_depth, time_limit, max_moves, guiVars>>
minimaxVars == <<valid_moves, alpha, best_score, best_move, score>>
mctsVars == <<tree, node, board_state, current_player, sims>>

\* GomokuGUI.__init__: a fresh board, Black for the human, the colour menu.
GuiConstructed ==
    /\ live = EmptyBoard
    /\ game_over = FALSE
    /\ winner = 0
    /\ player_color = Black
    /\ selecting_color = TRUE
    /\ gui_pc = "events"
    /\ accepted = 0
    /\ clicks = 0

Init ==
    /\ GuiConstructed
    /\ engine \in {"minimax", "mcts"}
    /\ board \in Boards
    /\ board0 = board
    /\ max_depth \in IF engine = "minimax" THEN 1 .. MaxDepth ELSE {0}
    /\ time_limit \in IF engine = "mcts" THEN {0, DefaultTimeLimit} ELSE {0}
    /\ max_moves \in IF engine = "mcts" THEN {SmallMaxMoves} ELSE {0}
    /\ pc = "call"
    /\ via = "none"
    /\ result = None
    /\ valid_moves = << >>
    /\ k = 0
    /\ alpha = 0
    /\ best_score = 0
    /\ best_move = None
    /\ score = 0
    /\ tree = << >>
    /\ node = 0
    /\ board_state = board
    /\ current_player = 0
    /\ sims = 0

Return(move, how) ==
    /\ result' = move
    /\ via' = how
    /\ pc' = "done"

(***************************************************************************)
(* GomokuAI.get_move                                                       *)
(***************************************************************************)
\* valid_moves = self._get_valid_moves(board), `if not valid_moves`, and the
\* first-move test.
MM_Start ==
    /\ pc = "call" /\ engine = "minimax"
    /\ valid_moves' = _get_valid_moves(board)
    /\ board' = board
    /\ IF valid_moves' = << >>
       THEN Return(None, "no move") /\ k' = k
       ELSE IF Len(valid_moves') = N * N
       THEN Return(<<center, center>>, "center") /\ k' = k
       ELSE pc' = "win_scan" /\ k' = 1 /\ UNCHANGED <<via, result>>
    /\ UNCHANGED <<config, alpha, best_score, best_move, score, mctsVars>>

\* for move in valid_moves: if self._is_winning_move(board, move, board.current_player)
MM_WinScan ==
    /\ pc = "win_scan"
    /\ IF k > Len(valid_moves)
       THEN pc' = "block_scan" /\ k' = 1 /\ UNCHANGED <<via, result, board>>
       ELSE /\ board' = AfterIsWinningMove(board, valid_moves[k], board.current_player)
            /\ IF _is_winning_move(board, valid_moves[k], board.current_player)
               THEN Return(valid_moves[k], "win") /\ k' = k
               ELSE k' = k + 1 /\ UNCHANGED <<pc, via, result>>
    /\ UNCHANGED <<config, minimaxVars, mctsVars>>

\* for move in valid_moves: if self._is_winning_move(board, move, -board.current_player);
\* then alpha, best_score, best_move are set for the search.
MM_BlockScan ==
    /\ pc = "block_scan"
    /\ IF k > Len(valid_moves)
       THEN /\ pc' = "search" /\ k' = 1
            /\ alpha' = 0 - Inf /\ best_score' = 0 - Inf /\ best_move' = None
            /\ UNCHANGED <<via, result, board>>
       ELSE /\ board' = AfterIsWinningMove(board, valid_moves[k], 0 - board.current_player)
            /\ IF _is_winning_move(board, valid_moves[k], 0 - board.current_player)
               THEN Return(valid_moves[k], "block") /\ k' = k
               ELSE k' = k + 1 /\ UNCHANGED <<pc, via, result>>
            /\ UNCHANGED <<alpha, best_score, best_move>>
    /\ UNCHANGED <<config, valid_moves, score, mctsVars>>

\* One pass of the root loop: score the move by _minimax on new_board, keep
\* the first best; after the last move, return best_move.
MM_Search ==
    /\ pc = "search"
    /\ IF k > Len(valid_moves)
       THEN /\ Return(best_move, "search")
            /\ UNCHANGED <<board, k, alpha, best_score, best_move, score>>
       ELSE LET nb == NewBoard(board, valid_moves[k])
            IN  /\ board' = nb.orig
                /\ score' = _minimax(nb.new, max_depth - 1, FALSE, alpha, Inf)
                /\ best_score' = IF score' > best_score THEN score' ELSE best_score
                /\ best_move' = IF score' > best_score THEN valid_moves[k] ELSE best_move
                /\ alpha' = Max(alpha, best_score')
                /\ k' = k + 1
                /\ UNCHANGED <<pc, via, result>>
    /\ UNCHANGED <<config, valid_moves, mctsVars>>

(***************************************************************************)
(* MCTS.get_move                                                           *)
(***************************************************************************)
\* The root node holds the caller's board itself, not a copy.
WithRootBoard(t, b) == [t EXCEPT ![1].board = b]

\* root = Node(board)
MC_Start ==
    /\ pc = "call" /\ engine = "mcts"
    /\ tree' = << Node(board, 0, None) >>
    /\ pc' = "forced" /\ k' = 1
    /\ UNCHANGED <<config, board, via, result, minimaxVars,
                   node, board_state, current_player, sims>>

\* for move in root.untried_moves: the win test, then the block test.
MC_Forced ==
    /\ pc = "forced"
    /\ IF k > Len(tree[1].untried_moves)
       THEN pc' = "loop" /\ UNCHANGED <<via, result, board, k, tree>>
       ELSE LET move == tree[1].untried_moves[k]
                b1 == AfterIsWinningMove(board, move, board.current_player)
                b2 == AfterIsWinningMove(b1, move, 0 - b1.current_player)
            IN  IF _is_winning_move(board, move, board.current_player)
                THEN /\ Return(move, "win") /\ k' = k
                     /\ board' = b1 /\ tree' = WithRootBoard(tree, b1)
                ELSE /\ board' = b2 /\ tree' = WithRootBoard(tree, b2)
                     /\ IF _is_winning_move(b1, move, 0 - b1.current_player)
                        THEN Return(move, "block") /\ k' = k
                        ELSE k' = k + 1 /\ UNCHANGED <<pc, via, result>>
    /\ UNCHANGED <<config, minimaxVars, node, board_state, current_player, sims>>

\* `time.time() < end_time` holds: the clock has not reached the end of a
\* positive budget.  Selection, expansion, and the start of the simulation.
MC_Select ==
    /\ pc = "loop"
    /\ time_limit > 0
    /\ sims < MaxSims
    /\ \E n \in {Select(tree, 1)} :
         \E t2 \in {Expand(tree, n)} :
           \E n2 \in {IF tree[n].untried_moves # << >> THEN Len(t2) ELSE n} :
              /\ tree' = t2
              /\ node' = n2
              /\ board' = t2[1].board
              /\ board_state' = copy(t2[n2].board)
              /\ current_player' = t2[n2].board.current_player
    /\ pc' = "rollout"
    /\ UNCHANGED <<config, via, result, k, minimaxVars, sims>>

\* One pass of `while not board_state.is_game_over()`.
MC_Rollout ==
    /\ pc = "rollout"
    /\ ~is_game_over(board_state)
    /\ board_state' = make_move(board_state, ChosenMove(board_state))
    /\ UNCHANGED <<config, board, pc, via, result, k, minimaxVars,
                   tree, node, current_player, sims>>

\* The rollout is over: result = board_state.check_win() and the walk from
\* node up to the root.
MC_Backprop ==
    /\ pc = "rollout"
    /\ is_game_over(board_state)
    /\ tree' = Backpropagate(tree, node, Reward2(check_win(board_state), current_player))
    /\ sims' = sims + 1
    /\ pc' = "loop"
    /\ UNCHANGED <<config, board, via, result, k, minimaxVars,
                   node, board_state, current_player>>

\* `time.time() < end_time` fails: before the first iteration when the budget
\* is not positive, after any iteration otherwise.  The final choice indexes
\* the sorted children with [-1]: IndexError when there is none.
MC_Finish ==
    /\ pc = "loop"
    /\ (time_limit <= 0) \/ (sims >= 1)
    /\ IF tree[1].children = << >>
       THEN pc' = "raised" /\ via' = "IndexError" /\ UNCHANGED result
       ELSE Return(tree[BestChild(tree)].move, "search")
    /\ UNCHANGED <<config, board, k, minimaxVars, mctsVars>>

Next ==
    \/ MM_Start
    \/ MM_WinScan
    \/ MM_BlockScan
    \/ MM_Search
    \/ MC_Start
    \/ MC_Forced
    \/ MC_Select
    \/ MC_Rollout
    \/ MC_Backprop
    \/ MC_Finish

Spec == Init /\ [][Next]_vars

(***************************************************************************)
(* gui.py: GomokuGUI                                                       *)
(***************************************************************************)
\* max_depth of the GUI's engine: GomokuAI(max_depth=4).
GuiDepth == 4

\* Largest number of stone-placing board clicks in one run of the window.
MaxClicks == 2

\* Where the mouse may be on a board click, after get_board_pos: three cells,
\* or None off the grid.
ClickCells == {<<5, 4>>, <<7, 11>>, <<0, 0>>}

\* Positions of a running game with the human, Black, to move: four stones
\* each, Black's or White's on the center line with one cell missing and the
\* other side's four in row 5.
GuiGames ==
    {LineBoard(d, gap, owner, TRUE, Black) :
        <<d, gap, owner>> \in (1 .. 4) \X (1 .. WinLen) \X {Black, White}}

engineVars == <<engine, board, board0, max_depth, time_limit, max_moves, pc, via,
                result, valid_moves, k, alpha, best_score, best_move, score,
                tree, node, board_state, current_player, sims>>

\* The window's engine between calls.
EngineIdle ==
    /\ engine = "minimax"
    /\ board = EmptyBoard
    /\ board0 = EmptyBoard
    /\ max_depth = GuiDepth
    /\ time_limit = 0
    /\ max_moves = 0
    /\ pc = "call"
    /\ via = "none"
    /\ result = None
    /\ valid_moves = << >>
    /\ k = 0
    /\ alpha = 0
    /\ best_score = 0
    /\ best_move = None
    /\ score = 0
    /\ tree = << >>
    /\ node = 0
    /\ board_state = EmptyBoard
    /\ current_player = 0
    /\ sims = 0

\* The window right after construction, or in a running game with the human
\* to move.
GuiInit ==
    /\ EngineIdle
    /\ \/ GuiConstructed
       \/ /\ live \in GuiGames
          /\ game_over = FALSE
          /\ winner = 0
          /\ player_color = Black
          /\ selecting_color = FALSE
          /\ gui_pc = "events"
          /\ accepted = 2 * (WinLen - 1)
          /\ clicks = 0

\* GomokuGUI.check_game_state on board b: the new (game_over, winner).
check_game_state(b, over, won) ==
    IF check_win(b) # 0 THEN [game_over |-> TRUE, winner |-> check_win(b)]
    ELSE IF get_valid_moves(b) = << >> THEN [game_over |-> TRUE, winner |-> won]
    ELSE [game_over |-> over, winner |-> won]

\* The click handler after the human's move with `if not self.game_over:
\* self.ai_move()` replaced by an unconditional self.ai_move().
AfterHumanMoveBad(over) == "ai"

\* The click handler after the human's move and check_game_state:
\* if not self.game_over: self.ai_move().
AfterHumanMove(over) == IF ~over THEN "ai" ELSE "events"

\* pygame.QUIT: pygame.quit(); sys.exit().
Quit ==
    /\ gui_pc = "events"
    /\ gui_pc' = "exited"
    /\ UNCHANGED <<live, game_over, winner, player_color, selecting_color,
                   accepted, clicks>>
    /\ UNCHANGED engineVars

\* A click on the Black button of the colour menu.
ChooseBlack ==
    /\ gui_pc = "events" /\ selecting_color
    /\ player_color' = Black
    /\ selecting_color' = FALSE
    /\ UNCHANGED <<live, game_over, winner, gui_pc, accepted, clicks>>
    /\ UNCHANGED engineVars

\* A click on the White button of the colour menu: the AI moves first.
ChooseWhite ==
    /\ gui_pc = "events" /\ selecting_color
    /\ player_color' = White
    /\ selecting_color' = FALSE
    /\ gui_pc' = "ai"
    /\ UNCHANGED <<live, game_over, winner, accepted, clicks>>
    /\ UNCHANGED engineVars

\* A click while the game is over: back to the colour menu and reset_game,
\* whose ai_move runs only for a White human outside the menu.
RestartClick ==
    /\ gui_pc = "events" /\ ~selecting_color /\ game_over
    /\ selecting_color' = TRUE
    /\ live' = EmptyBoard
    /\ game_over' = FALSE
    /\ winner' = 0
    /\ accepted' = 0
    /\ gui_pc' = IF player_color = White /\ ~selecting_color' THEN "ai" ELSE "events"
    /\ UNCHANGED <<player_color, clicks>>
    /\ UNCHANGED engineVars

\* A click on the board in a running game: on the human's turn and on a valid
\* cell the stone is placed, the game state checked, and the AI is to answer
\* unless the game is over; any other click changes nothing.
HumanClick ==
    /\ gui_pc = "events" /\ ~selecting_color /\ ~game_over
    /\ clicks < MaxClicks
    /\ \E board_pos \in ClickCells \cup {None} :
          IF /\ live.current_player = player_color
             /\ board_pos # None
             /\ is_valid_move(live, board_pos)
          THEN /\ live' = make_move(live, board_pos)
               /\ \E st \in {check_game_state(live', game_over, winner)} :
                     /\ game_over' = st.game_over
                     /\ winner' = st.winner
                     /\ gui_pc' = AfterHumanMove(st.game_over)
               /\ accepted' = accepted + 1
               /\ clicks' = clicks + 1
               /\ UNCHANGED <<player_color, selecting_color>>
          ELSE UNCHANGED guiVars
    /\ UNCHANGED engineVars

\* GomokuGUI.ai_move: ai_move = self.ai.get_move(self.board); if ai_move:
\* make_move and check_game_state.
AiMove ==
    /\ gui_pc = "ai"
    /\ \E ai_move \in GomokuAI_get_move(live) :
          IF ai_move # None
          THEN /\ live' = make_move(live, ai_move)
               /\ \E st \in {check_game_state(live', game_over, winner)} :
                     /\ game_over' = st.game_over
                     /\ winner' = st.winner
               /\ accepted' = IF is_valid_move(live, ai_move) THEN accepted + 1
                              ELSE accepted
          ELSE UNCHANGED <<live, game_over, winner, accepted>>
    /\ gui_pc' = "events"
    /\ UNCHANGED <<player_color, selecting_color, clicks>>
    /\ UNCHANGED engineVars

GuiNext ==
    \/ Quit
    \/ ChooseBlack
    \/ ChooseWhite
    \/ RestartClick
    \/ HumanClick
    \/ AiMove

GuiSpec == GuiInit /\ [][GuiNext]_vars


(***************************************************************************)
(* Properties                                                              *)
(***************************************************************************)
\* get_move has returned a value.
Returned == pc = "done"

\* The empty cell m completes a run of WinLen or more for player p on b.
Completes(b, m, p) ==
    /\ Cell(b, m[1], m[2]) = 0
    /\ \E d \in 1 .. 4 :
          1 + CountRun(b, m[1] + directions[d][1], m[2] + directions[d][2],
                       directions[d][1], directions[d][2], p)
            + CountRun(b, m[1] - directions[d][1], m[2] - directions[d][2],
                       0 - directions[d][1], 0 - directions[d][2], p)
          >= WinLen

CompletingCells(b, p) == {m \in Cells \X Cells : Completes(b, m, p)}

HasEmptyCell(b) == \E m \in Cells \X Cells : Cell(b, m[1], m[2]) = 0

\* The nodes from n up to the root of tree t.
RECURSIVE PathToRoot(_, _)
PathToRoot(t, n) == IF n = 0 THEN {} ELSE {n} \cup PathToRoot(t, t[n].parent)

\* Sum of the visit counts of the nodes kids[1 .. n] of tree t.
RECURSIVE SumVisits(_, _, _)
SumVisits(t, kids, n) ==
    IF n = 0 THEN 0 ELSE t[kids[n]].visits + SumVisits(t, kids, n - 1)

\* The root children of maximal visit count, as positions in root.children.
MostVisited(t) ==
    {c \in 1 .. Len(t[1].children) :
        \A d \in 1 .. Len(t[1].children) :
            t[t[1].children[d]].visits <= t[t[1].children[c]].visits}

\* C1: the board passed to get_move has, at every point of the call and so
\* when it returns, the cells and the current_player it had at call time, on
\* every path (center move, forced win or block, search, rollouts).
C1_BoardUnchanged == board = board0

\* C1 witness: MCTS.get_move returned from the search loop after several
\* iterations with rollouts, and the board is as passed in.
C1_Witness ==
    /\ Returned /\ engine = "mcts" /\ via = "search"
    /\ sims >= 2 /\ Len(tree) >= 3
    /\ board = board0

\* C2: on a board with at least one empty cell, the move get_move returns is
\* a pair inside [0,N) x [0,N) whose cell is empty on the passed-in board.
C2_ReturnedMoveValid ==
    (Returned /\ HasEmptyCell(board0)) =>
        /\ result # None
        /\ InRange(result[1], result[2])
        /\ Cell(board0, result[1], result[2]) = 0

\* C2 witness: GomokuAI.get_move returned the best move of its search, an
\* empty cell of the board.
C2_Witness ==
    /\ Returned /\ engine = "minimax" /\ via = "search"
    /\ HasEmptyCell(board0)
    /\ is_valid_move(board0, result)

\* C3: on a board without an empty cell get_move of either engine ends by
\* returning None; it does not raise.
C3_NoMoveOnFullBoard ==
    (~HasEmptyCell(board0) /\ pc \in {"done", "raised"}) =>
        (pc = "done" /\ result = None)

\* C4: when the player to move has an empty cell that completes five or more,
\* get_move of either engine returns such a cell, whatever max_depth or
\* time_limit and whether or not the opponent has a winning cell too.
C4_MoverWinReturned ==
    (Returned /\ CompletingCells(board0, board0.current_player) # {}) =>
        result \in CompletingCells(board0, board0.current_player)

\* C5: when the player to move has no winning cell and the opponent has one,
\* get_move of either engine returns a winning cell of the opponent.
C5_BlockReturned ==
    (/\ Returned
     /\ CompletingCells(board0, board0.current_player) = {}
     /\ CompletingCells(board0, 0 - board0.current_player) # {}) =>
        result \in CompletingCells(board0, 0 - board0.current_player)

\* C5 witness: Black on (7,7) .. (7,10), White to move, and the engine
\* returned (7,6) or (7,11).
C5_Witness ==
    /\ Returned
    /\ board0 = LineBoard(2, WinLen, Black, FALSE, White)
    /\ result \in {<<7, 6>>, <<7, 11>>}

\* C6: on the empty board get_move of either engine returns the center cell
\* (N // 2, N // 2) = (7, 7).
C6_CenterOnEmptyBoard ==
    (Returned /\ board0.board = EmptyBoard.board) => result = <<7, 7>>

\* C6 witness: MCTS.get_move returned (7, 7) on the empty board after at
\* least one iteration.
C6_Witness ==
    /\ Returned /\ engine = "mcts" /\ sims >= 1
    /\ board0 = EmptyBoard
    /\ result = <<N \div 2, N \div 2>>

\* C7: in MCTS.get_move, between iterations of the search loop, the visit
\* counts of the root's children sum to the number of completed iterations,
\* which is also root.visits, for every root with a candidate move.
C7_RootVisitsSum ==
    (/\ engine = "mcts" /\ pc = "loop"
     /\ (tree[1].untried_moves # << >> \/ tree[1].children # << >>)) =>
        /\ SumVisits(tree, tree[1].children, Len(tree[1].children)) = sims
        /\ tree[1].visits = sims

\* C7 witness: three or more iterations are complete and the root has
\* several children.
C7_Witness ==
    /\ engine = "mcts" /\ pc = "loop"
    /\ sims >= 3
    /\ Len(tree[1].children) >= 2
    /\ tree[1].visits = sims

\* C8: the move returned when the search loop ends is the move of a root
\* child of maximal visit count, and among several such children it is the
\* one inserted last into root.children.
C8_MostVisitedReturned ==
    (Returned /\ engine = "mcts" /\ via = "search") =>
        /\ MostVisited(tree) # {}
        /\ \E c \in MostVisited(tree) :
              /\ \A d \in MostVisited(tree) : d <= c
              /\ result = tree[tree[1].children[c]].move

\* C8 witness: the loop ended with the maximum shared by several children,
\* and with a child below the maximum.
C8_Witness ==
    /\ Returned /\ engine = "mcts" /\ via = "search"
    /\ Cardinality(MostVisited(tree)) >= 2
    /\ Cardinality(MostVisited(tree)) < Len(tree[1].children)

\* C9: each backpropagation adds 1 to visits on every node from the expanded
\* node up to the root, and to wins 0.5 when the rollout has no winner, 1.0
\* when the winner is the player to move on the root board, 0.0 otherwise,
\* at every depth of the expanded node.
C9_RewardFromRootMover ==
    [][(pc = "rollout" /\ pc' = "loop") =>
         \A n \in PathToRoot(tree, node) :
            /\ tree'[n].visits = tree[n].visits + 1
            /\ tree'[n].wins2 = tree[n].wins2
                                + (IF check_win(board_state) = 0 THEN 1
                                   ELSE IF check_win(board_state) = board0.current_player
                                   THEN 2 ELSE 0)]_vars

\* C10: the number of search-loop iterations of one MCTS.get_move never
\* exceeds max_moves.
C10_SimsWithinMaxMoves == engine = "mcts" => sims <= max_moves

\* The static evaluation of board b seen from player p: p's patterns minus
\* 1.1 times the other side's, in tenths.
EvalFor(b, p) == _evaluate_board([b EXCEPT !.current_player = p])

\* Minimax without pruning over the same candidate lists.  A leaf is valued
\* from the side of mover; mover = 0 stands for the player to move on the
\* leaf board, as in _evaluate_board.
RECURSIVE PlainMinimax(_, _, _, _)
RECURSIVE PlainLoop(_, _, _, _, _, _, _)
PlainLoop(b, moves, j, depth, is_maximizing, mover, best) ==
    IF j > Len(moves) THEN best
    ELSE LET eval == PlainMinimax(NewBoard(b, moves[j]).new, depth - 1,
                                  ~is_maximizing, mover)
         IN  PlainLoop(b, moves, j + 1, depth, is_maximizing, mover,
                       IF is_maximizing THEN Max(best, eval) ELSE Min(best, eval))

PlainMinimax(b, depth, is_maximizing, mover) ==
    IF depth = 0 \/ is_game_over(b)
    THEN EvalFor(b, IF mover = 0 THEN b.current_player ELSE mover)
    ELSE PlainLoop(b, _get_valid_moves(b), 1, depth, is_maximizing, mover,
                   IF is_maximizing THEN 0 - Inf ELSE Inf)

\* C11: every leaf of the search is valued from the side of the player to
\* move on the board given to get_move, at every ply; so the score of the
\* first root move, searched with the full window, is its minimax value
\* with the leaves valued for that player.
C11_LeavesFromRootMover ==
    (engine = "minimax" /\ pc = "search" /\ k = 2) =>
        score = PlainMinimax(NewBoard(board0, valid_moves[1]).new, max_depth - 1,
                             FALSE, board0.current_player)

\* C12: an engine built with a non-positive max_depth or time_limit is
\* rejected at construction, so no get_move runs with such a value.
C12_ConfigRejected ==
    (pc # "call") =>
        /\ (engine = "minimax" => max_depth >= 1)
        /\ (engine = "mcts" => time_limit > 0)

\* 1 when the scan from (ni, nj) in steps of (si, sj) is stopped by an
\* obstruction, an opponent stone or the board edge, and 0 when it is stopped
\* by a second empty cell or by a stone of player after a gap.
RECURSIVE StopsObstructed(_, _, _, _, _, _, _)
StopsObstructed(b, ni, nj, si, sj, player, space) ==
    IF ~InRange(ni, nj) THEN 1
    ELSE IF Cell(b, ni, nj) = 0
    THEN IF space + 1 >= 2 THEN 0
         ELSE StopsObstructed(b, ni + si, nj + sj, si, sj, player, space + 1)
    ELSE IF Cell(b, ni, nj) = player
    THEN IF space = 0
         THEN StopsObstructed(b, ni + si, nj + sj, si, sj, player, space)
         ELSE 0
    ELSE 1

\* Number of the two ends of the scan through (i, j) along (di, dj) that
\* reach an opponent stone or leave the board.
BlockedEnds(b, i, j, di, dj, player) ==
    StopsObstructed(b, i - di, j - dj, 0 - di, 0 - dj, player, 0)
    + StopsObstructed(b, i + di, j + dj, di, dj, player, 0)

\* C13: for every stone of the board given to get_move, taken as anchor with
\* its own colour, and every direction, the blocked count of the pattern scan
\* is the number of scan ends that reach an opponent stone or the board edge.
C13_EdgeCountsAsBlocked ==
    (pc = "call") =>
        \A i \in Cells, j \in Cells, d \in 1 .. 4 :
            Cell(board0, i, j) # 0 =>
                _get_pattern(board0, i, j, directions[d][1], directions[d][2],
                             Cell(board0, i, j)).blocked
                = BlockedEnds(board0, i, j, directions[d][1], directions[d][2],
                              Cell(board0, i, j))

\* C14: every candidate list handed to a search step is within the breadth
\* cap: the root candidates of GomokuAI.get_move are at most 15 and the
\* untried moves of every MCTS node are at most 10.
C14_CandidatesWithinCap ==
    /\ (engine = "minimax" /\ pc # "call") => Len(valid_moves) <= MinimaxBreadth
    /\ (engine = "mcts") =>
           \A n \in 1 .. Len(tree) : Len(tree[n].untried_moves) <= NodeBreadth

\* C17: whenever the selection loop of MCTS.get_move is about to run, every
\* node that has children has visits >= 1 and every node below the root has
\* visits >= 1, so that select_child never divides by zero visits nor takes
\* the logarithm of zero: each expanded node was backpropagated through in
\* the iteration that created it.
C17_SelectChildVisited ==
    (engine = "mcts" /\ pc = "loop") =>
        \A n \in 1 .. Len(tree) :
            /\ (n > 1 => tree[n].visits >= 1)
            /\ (tree[n].children # << >> => tree[n].visits >= 1)

\* select_child has been called on the root: the tree holds a grandchild of
\* the root, which only a descent through a fully expanded root creates.
C17_Witness ==
    /\ engine = "mcts" /\ pc = "loop"
    /\ \E n \in 2 .. Len(tree) : tree[n].parent # 1

\* Exact minimax values of the root candidates of b, in list order.
PlainValues(b, depth) ==
    LET moves == _get_valid_moves(b)
    IN  Stored([j \in 1 .. Len(moves) |->
            [move  |-> moves[j],
             value |-> PlainMinimax(NewBoard(b, moves[j]).new, depth - 1, FALSE, 0)]])

\* The first root candidate, in list order, whose exact value is maximal.
PlainBest(b, depth) ==
    LET vals == PlainValues(b, depth)
        first == CHOOSE j \in 1 .. Len(vals) :
                     /\ \A i \in 1 .. Len(vals) : vals[i].value <= vals[j].value
                     /\ \A i \in 1 .. (j - 1) : vals[i].value < vals[j].value
    IN  vals[first].move

\* C16: when get_move returns from the search, with no forced move, the move
\* is the one minimax without pruning returns on the same candidate lists,
\* leaf evaluation and depth: the first root candidate of maximal exact value.
C16_PruningKeepsResult ==
    (Returned /\ engine = "minimax" /\ via = "search") =>
        result = PlainBest(board0, max_depth)

\* The search has returned after a cutoff changed the score of a root move:
\* the score it found for the last root candidate, at a depth where the
\* replies are searched, is not that candidate's exact value.
C16_Witness ==
    /\ Returned /\ engine = "minimax" /\ via = "search" /\ max_depth >= 2
    /\ score # PlainMinimax(NewBoard(board0, Last(valid_moves)).new,
                            max_depth - 1, FALSE, 0)

\* Number of stones on b.
StoneCount(b) == Cardinality({c \in 1 .. (N * N) : b.board[c] # 0})

\* The step places one stone on the live board: exactly one cell changes, from
\* empty to the colour of the player to move, and the turn passes.
PlacesStone ==
    /\ \E c \in 1 .. (N * N) :
          /\ live.board[c] = 0
          /\ live'.board[c] = live.current_player
          /\ \A c2 \in (1 .. (N * N)) \ {c} : live'.board[c2] = live.board[c2]
    /\ live'.current_player = 0 - live.current_player

\* C15: under any sequence of colour choices, board clicks, AI replies and
\* restart clicks, the live board changes only by starting a new game or by
\* placing one stone on an empty cell while game_over is false, for the side
\* to move: the human's click handler places it iff the side to move is
\* player_color, ai_move otherwise.  So in every state the stone count is the
\* number of accepted moves of the game and Black is to move iff it is even.
C15_TurnsAndStones ==
    /\ [](/\ StoneCount(live) = accepted
          /\ live.current_player = (IF accepted % 2 = 0 THEN Black ELSE White))
    /\ [][live' # live =>
            \/ live' = EmptyBoard /\ accepted' = 0
            \/ /\ ~game_over
               /\ PlacesStone
               /\ accepted' = accepted + 1
               /\ (gui_pc = "events") => live.current_player = player_color
               /\ (gui_pc = "ai") => live.current_player # player_color
               /\ gui_pc \in {"events", "ai"}]_vars

\* The human has placed a stone, the AI has answered, and the game goes on
\* with the human to move.
C15_Witness ==
    /\ clicks >= 1 /\ gui_pc = "events" /\ ~selecting_color /\ ~game_over
    /\ accepted >= 2
    /\ live.current_player = player_color

====
